---- MODULE Spec2Model ----
(***************************************************************************)
(* Ravelin numeric kernel: VectorN buffers and shared views, the spatial   *)
(* axis dot product, the vector literal parser and the spherical joint's   *)
(* axis completion.                                                        *)
(***************************************************************************)
EXTENDS Integers, Sequences, FiniteSets, TLC

(* ---------------------------------------------------------------- bounds *)
\* largest length handed to a constructor or to resize
MaxN == 2

VARIABLES
  vec,      \* the VECTORN objects: name -> [len, cap, nil, alloc, cells]
  view,     \* one SHAREDVECTORN: [of, ro, start, len, inc, nil, cells]
  ev,       \* the last call: operation, arguments, outcome, returned value
  saxis,    \* an SAXIS: [pose, d], d the six components behind data()
  sforce,   \* an SFORCE or SMOMENTUM: [kind, pose, d]
  dotret,   \* the last SAXIS::dot call: [out, val]
  pin,      \* VECTORN::parse: the string s, a sequence of characters
  pcopy,    \* VECTORN::parse: copy
  plist,    \* VECTORN::parse: plist
  ppc,      \* VECTORN::parse: "loop", "convert" or "done"
  pvalues,  \* VECTORN::parse: the elements of values
  joint,    \* the SPHERICALJOINT: its members and the outcome of the last call
  xform     \* TRANSFORM2: the operands T2, T1 of T2 * T1 and its outcome

vecvars == <<vec, view, ev>>
dotvars == <<saxis, sforce, dotret>>
parsevars == <<pin, pcopy, plist, ppc, pvalues>>
vars == <<vec, view, ev, saxis, sforce, dotret, pin, pcopy, plist, ppc, pvalues, joint, xform>>

(* ------------------------------------------------------------- storage  *)
\* A VECTORN holds its array (_data, a boost::shared_array) alone or together
\* with the view that segment() made on it; two VECTORNs never hold the same
\* array. The array is kept inside the record of the vector that holds it
\* (nil: _data is the null pointer; alloc: the N of new REAL[N]; cells: the
\* memory from the start of the array on, the requested cells first). A view
\* has of = the vector whose array it holds, or of = "own" once that vector
\* has let go of the array and the view alone keeps it alive.
\* The element values. The calls modelled here move values between cells and
\* never compute with them, so two values tell a cell from its neighbour.
Vals == {0, 1}
VecIds == {"v", "w"}
PhysLen == MaxN
Garbage == [1..PhysLen -> Vals]
Zeros == [k \in 1..PhysLen |-> 0]
\* what a call finds in the array new REAL[] gives it, when it asks for one;
\* the first n cells are the ones the call writes before it returns
Fresh(allocates, n) ==
  IF allocates THEN {[k \in 1..PhysLen |-> IF k <= n THEN 0 ELSE g[k]] : g \in Garbage}
               ELSE {Zeros}

\* CBLAS::copy(n, src, 1, dst, 1) on the cells of two arrays
BlasCopy(n, src, dst) == [k \in 1..PhysLen |-> IF k <= n THEN src[k] ELSE dst[k]]

\* CBLAS::copy(n, src + from, 1, dst, 1)
BlasCopyFrom(n, src, from, dst) ==
  [k \in 1..PhysLen |-> IF k <= n THEN src[from + k] ELSE dst[k]]

Min(a, b) == IF a < b THEN a ELSE b

(* ------------------------------------------------------ VECTORN methods *)
\* VECTORN::VECTORN()
DefaultVec == [len |-> 0, cap |-> 0, nil |-> TRUE, alloc |-> 0, cells |-> Zeros]
\* a SHAREDVECTORN that holds nothing
NullView == [of |-> "null", ro |-> FALSE, start |-> 0, len |-> 0, inc |-> 1,
             nil |-> TRUE, cells |-> Zeros]

\* VECTORN::VECTORN(unsigned N); g is what new REAL[N] holds
construct(N, g) == [len |-> N, cap |-> N, nil |-> FALSE, alloc |-> N, cells |-> g]

\* resize that takes the new array as it comes, whatever preserve says
resize_nopreserve(r, N, preserve, g) ==
  IF r.len = N THEN [r |-> r, new |-> FALSE]
  ELSE IF N < r.cap THEN [r |-> [r EXCEPT !.len = N], new |-> FALSE]
  ELSE [r |-> [len |-> N, cap |-> N, nil |-> FALSE, alloc |-> N, cells |-> g],
        new |-> TRUE]

\* resize that grows the array and leaves _capacity as it was
resize_nocap(r, N, preserve, g) ==
  IF r.len = N THEN [r |-> r, new |-> FALSE]
  ELSE IF N < r.cap THEN [r |-> [r EXCEPT !.len = N], new |-> FALSE]
  ELSE [r |-> [len |-> N, cap |-> r.cap, nil |-> FALSE, alloc |-> N,
               cells |-> IF preserve THEN BlasCopy(r.len, r.cells, g) ELSE g],
        new |-> TRUE]

\* VECTORN::resize(N, preserve) on the vector record r. The result is the
\* vector after the call and whether the call put a new array in _data.
resize(r, N, preserve, g) ==
  IF r.len = N THEN [r |-> r, new |-> FALSE]
  ELSE IF N < r.cap THEN [r |-> [r EXCEPT !.len = N], new |-> FALSE]
  ELSE [r |-> [len |-> N, cap |-> N, nil |-> FALSE, alloc |-> N,
               cells |-> IF preserve THEN BlasCopy(r.len, r.cells, g) ELSE g],
        new |-> TRUE]

\* resize(N) asks for a new array
Reallocates(r, N) == r.len # N /\ ~(N < r.cap)

\* VECTORN::compress()
compress(r, g) ==
  IF r.len = r.cap THEN [r |-> r, new |-> FALSE]
  ELSE [r |-> [r EXCEPT !.nil = FALSE, !.alloc = r.len, !.cap = r.len,
                        !.cells = BlasCopy(r.len, r.cells, g)],
        new |-> TRUE]

\* VECTORN::operator=(const VECTORN& source) on the vector record r
assign(r, src, g) ==
  LET rs == IF r.len # src.len THEN resize(r, src.len, FALSE, g)
                               ELSE [r |-> r, new |-> FALSE]
  IN IF rs.r.len > 0
       THEN [r |-> [rs.r EXCEPT !.cells = BlasCopy(src.len, src.cells, @)], new |-> rs.new]
       ELSE rs

\* VECTORN::VECTORN(const VECTORN& source)
copy_construct(src, g) ==
  assign([len |-> src.len, cap |-> src.cap, nil |-> FALSE, alloc |-> src.len, cells |-> g],
         src, g).r

(* ---------------------------------------------------------------- views *)
\* the array a view reads and writes
ViewCells == IF view.of \in VecIds THEN vec[view.of].cells ELSE view.cells
ViewNil == IF view.of \in VecIds THEN vec[view.of].nil ELSE view.nil

\* a view that goes along to the new array of its vector
Detach_follow(vw, x, old, replaced) == vw

\* the vector x lets go of the array in old: a view on it keeps it alive
Detach(vw, x, old, replaced) ==
  IF replaced /\ vw.of = x
    THEN [vw EXCEPT !.of = "own", !.nil = old.nil, !.cells = old.cells]
    ELSE vw

Event(op, x, a, b, out, val, new) ==
  [op |-> op, x |-> x, a |-> a, b |-> b, out |-> out, val |-> val, new |-> new]

\* a call on the vectors: the process has not died, and the call touches
\* nothing but the vectors
Running == ev.out # "segv" /\ UNCHANGED <<dotvars, parsevars, joint, xform>>

TypeOK ==
  /\ vec \in [VecIds -> [len : 0..MaxN, cap : 0..MaxN, nil : BOOLEAN,
                         alloc : 0..MaxN, cells : Garbage]]
  /\ view \in [of : VecIds \cup {"null", "own"}, ro : BOOLEAN, start : 0..MaxN, len : 0..MaxN,
               inc : {1}, nil : BOOLEAN, cells : Garbage]

\* no spatial vector made yet
NoDot ==
  /\ saxis = [pose |-> "F1", d |-> <<0, 0, 0, 0, 0, 0>>]
  /\ sforce = [kind |-> "SFORCE", pose |-> "F1", d |-> <<0, 0, 0, 0, 0, 0>>]
  /\ dotret = [out |-> "none", val |-> 0]

\* SPHERICALJOINT::SPHERICALJOINT(): the axes are zero, the poses are NULL.
\* A spatial axis is [ang, lin]; set tells which axes a caller has set, op and
\* out tell the last call and how it ended.
Zero3 == <<0, 0, 0>>
ZeroAxis == [ang |-> Zero3, lin |-> Zero3]
NewJoint ==
  [u |-> <<Zero3, Zero3, Zero3>>, set |-> {},
   s |-> <<ZeroAxis, ZeroAxis, ZeroAxis>>,
   s_dot |-> <<ZeroAxis, ZeroAxis, ZeroAxis>>,
   q |-> Zero3, q_tare |-> Zero3, qd |-> Zero3,
   inboard |-> FALSE, outboard |-> FALSE,
   Fprime |-> [q |-> <<<<15625, 0, 0>>, <<0, 15625, 0>>, <<0, 0, 15625>>>>, x |-> Zero3],
   configured |-> FALSE, op |-> "new", out |-> "none", arg |-> 0, ret |-> Zero3]
NoJoint == joint = NewJoint

\* TRANSFORM2::TRANSFORM2(): no rotation, no translation, no poses
NewTransform == [r |-> 0, x |-> <<0, 0>>, source |-> "NULL", target |-> "NULL"]
NoTransform ==
  xform = [T2 |-> NewTransform, T1 |-> NewTransform, out |-> "none", ret |-> NewTransform]

\* no parse under way
NoParse ==
  /\ pin = <<>> /\ pcopy = <<>> /\ plist = <<>> /\ ppc = "done" /\ pvalues = <<>>

Init ==
  /\ vec = [x \in VecIds |-> DefaultVec]
  /\ view = NullView
  /\ ev = Event("init", "v", 0, 0, "ok", 0, FALSE)
  /\ NoDot
  /\ NoParse
  /\ NoJoint
  /\ NoTransform

\* VECTORN x; : the object x is constructed anew, empty
Construct0(x) ==
  /\ Running
  /\ vec' = [vec EXCEPT ![x] = DefaultVec]
  /\ view' = Detach(view, x, vec[x], TRUE)
  /\ ev' = Event("construct0", x, 0, 0, "ok", 0, FALSE)

\* VECTORN x(N);
ConstructN(x, N) ==
  /\ Running
  /\ \E g \in Garbage : vec' = [vec EXCEPT ![x] = construct(N, g)]
  /\ view' = Detach(view, x, vec[x], TRUE)
  /\ ev' = Event("construct", x, N, 0, "ok", 0, TRUE)

\* VECTORN x(source);
CopyConstruct(x, s) ==
  /\ Running
  /\ x # s
  /\ \E g \in Fresh(TRUE, vec[s].len) : vec' = [vec EXCEPT ![x] = copy_construct(vec[s], g)]
  /\ view' = Detach(view, x, vec[x], TRUE)
  /\ ev' = Event("copy_construct", x, 0, 0, "ok", 0, TRUE)

\* x = source;
Assign(x, s) ==
  /\ Running
  /\ x # s
  /\ \E g \in Fresh(Reallocates(vec[x], vec[s].len), vec[s].len) :
       LET res == assign(vec[x], vec[s], g)
       IN /\ vec' = [vec EXCEPT ![x] = res.r]
          /\ view' = Detach(view, x, vec[x], res.new)
          /\ ev' = Event("assign", x, 0, 0, "ok", 0, res.new)

\* x.resize(N, preserve);
Resize(x, N, preserve) ==
  /\ Running
  /\ \E g \in Fresh(Reallocates(vec[x], N), IF preserve THEN vec[x].len ELSE 0) :
       LET res == resize(vec[x], N, preserve, g)
       IN /\ vec' = [vec EXCEPT ![x] = res.r]
          /\ view' = Detach(view, x, vec[x], res.new)
          /\ ev' = Event("resize", x, N, IF preserve THEN 1 ELSE 0, "ok",
                          IF res.new /\ preserve THEN vec[x].len ELSE 0, res.new)

\* x.compress();
Compress(x) ==
  /\ Running
  /\ \E g \in Fresh(vec[x].len # vec[x].cap, vec[x].len) :
       LET res == compress(vec[x], g)
       IN /\ vec' = [vec EXCEPT ![x] = res.r]
          /\ view' = Detach(view, x, vec[x], res.new)
          /\ ev' = Event("compress", x, 0, 0, "ok", 0, res.new)

\* x[i] = val; (the mutable operator[] of VECTORN)
SetElem(x, i, val) ==
  /\ Running
  /\ i < vec[x].len
  /\ vec' = [vec EXCEPT ![x].cells[i + 1] = val]
  /\ ev' = Event("set", x, i, 0, "ok", val, FALSE)
  /\ UNCHANGED view

\* segment that takes end_idx for the length of the view
segment_len(r, x, start_idx, end_idx, ro) ==
  IF start_idx > end_idx \/ end_idx > r.len
    THEN [out |-> "InvalidIndexException", x |-> NullView]
    ELSE [out |-> "ok",
          x |-> [of |-> x, ro |-> ro, start |-> start_idx, len |-> end_idx,
                 inc |-> 1, nil |-> TRUE, cells |-> Zeros]]

\* segment that checks end_idx against the length only
segment_nostart(r, x, start_idx, end_idx, ro) ==
  IF end_idx > r.len
    THEN [out |-> "InvalidIndexException", x |-> NullView]
    ELSE [out |-> "ok",
          x |-> [of |-> x, ro |-> ro, start |-> start_idx, len |-> end_idx - start_idx,
                 inc |-> 1, nil |-> TRUE, cells |-> Zeros]]

\* VECTORN::segment(start_idx, end_idx), the mutable overload (ro = FALSE,
\* a SHAREDVECTORN) and the const one (ro = TRUE, a CONST_SHAREDVECTORN)
segment(r, x, start_idx, end_idx, ro) ==
  IF start_idx > end_idx \/ end_idx > r.len
    THEN [out |-> "InvalidIndexException", x |-> NullView]
    ELSE [out |-> "ok",
          x |-> [of |-> x, ro |-> ro, start |-> start_idx, len |-> end_idx - start_idx,
                 inc |-> 1, nil |-> TRUE, cells |-> Zeros]]

\* view = x.segment(start_idx, end_idx);
Segment(x, start_idx, end_idx, ro) ==
  /\ Running
  /\ LET res == segment(vec[x], x, start_idx, end_idx, ro)
     IN /\ view' = IF res.out = "ok" THEN res.x ELSE view
        /\ ev' = Event(IF ro THEN "const_segment" ELSE "segment", x,
                       start_idx, end_idx, res.out, 0, FALSE)
  /\ UNCHANGED vec

\* _len, _start and the array of the object t: a VECTORN or the view "s"
LenOf(t) == IF t = "s" THEN view.len ELSE vec[t].len
StartOf(t) == IF t = "s" THEN view.start ELSE 0
NilOf(t) == IF t = "s" THEN ViewNil ELSE vec[t].nil
CellsOfObj(t) == IF t = "s" THEN ViewCells ELSE vec[t].cells

\* what a read of _data[k] finds: the cell, or for a cell past the memory the
\* model keeps, whatever the memory holds there
Deref(cells, k) == IF k + 1 <= PhysLen THEN {cells[k + 1]} ELSE Vals

\* REAL operator[](unsigned i) const: the outcome and the values it can return
index(len, start, nil, cells, i) ==
  IF i > len THEN [out |-> "InvalidIndexException", vals |-> {0}]
  ELSE IF nil THEN [out |-> "segv", vals |-> {0}]
  ELSE [out |-> "ok", vals |-> Deref(cells, i + start)]

\* const REAL* data(unsigned i) const, and the element the pointer refers to
data(len, start, nil, cells, i) ==
  IF i >= len THEN [out |-> "InvalidIndexException", vals |-> {0}]
  ELSE IF nil THEN [out |-> "segv", vals |-> {0}]
  ELSE [out |-> "ok", vals |-> Deref(cells, i + start)]

\* t[i]
Index(t, i) ==
  /\ Running
  /\ t = "s" => view.of # "null"
  /\ i <= LenOf(t) + 1
  /\ LET res == index(LenOf(t), StartOf(t), NilOf(t), CellsOfObj(t), i)
     IN \E val \in res.vals : ev' = Event("index", t, i, 0, res.out, val, FALSE)
  /\ UNCHANGED <<vec, view>>

\* *t.data(i)
Data(t, i) ==
  /\ Running
  /\ t = "s" => view.of # "null"
  /\ i <= LenOf(t) + 1
  /\ LET res == data(LenOf(t), StartOf(t), NilOf(t), CellsOfObj(t), i)
     IN \E val \in res.vals : ev' = Event("data", t, i, 0, res.out, val, FALSE)
  /\ UNCHANGED <<vec, view>>

\* view[i] = val; through a SHAREDVECTORN: the cell _data[i + _start] of the
\* array the view holds
ViewSet(i, val) ==
  /\ Running
  /\ view.of # "null" /\ ~view.ro
  /\ i < view.len
  /\ IF view.of \in VecIds
       THEN /\ vec' = [vec EXCEPT ![view.of].cells[i + view.start + 1] = val]
            /\ UNCHANGED view
       ELSE /\ view' = [view EXCEPT !.cells[i + view.start + 1] = val]
            /\ UNCHANGED vec
  /\ ev' = Event("view_set", "s", i, 0, "ok", val, FALSE)

\* get_sub_vec(start, end, v) of the vector record r; o is v
get_sub_vec(r, start, end, o, g) ==
  IF start > end \/ end > r.len
    THEN [out |-> "InvalidIndexException", r |-> o, new |-> FALSE]
    ELSE LET SZ == end - start
             rs == resize(o, SZ, FALSE, g)
         IN IF r.len = 0 \/ SZ = 0
              THEN [out |-> "ok", r |-> rs.r, new |-> rs.new]
              ELSE [out |-> "ok",
                    r |-> [rs.r EXCEPT !.cells = BlasCopyFrom(SZ, r.cells, start, @)],
                    new |-> rs.new]

\* x.get_sub_vec(start, end, o);
GetSubVec(x, start, end, o) ==
  /\ Running
  /\ x # o
  /\ \E g \in Fresh(start <= end /\ end <= vec[x].len
                    /\ Reallocates(vec[o], end - start), end - start) :
       LET res == get_sub_vec(vec[x], start, end, vec[o], g)
       IN /\ vec' = [vec EXCEPT ![o] = res.r]
          /\ view' = Detach(view, o, vec[o], res.new)
          /\ ev' = Event("get_sub_vec", x, start, end, res.out, 0, res.new)

(* ------------------------------------------------------ VECTORN::parse   *)
\* longest string handed to parse
MaxStr == 4
\* most iterations of the loop the model follows
MaxTokens == 6
\* the characters: a digit, the sign, the letters of inf in both cases, and
\* the delimiters space, tab and comma
Alphabet == {"1", "-", "i", "n", "f", "I", " ", "\t", ","}
Strings == UNION {[1..n -> Alphabet] : n \in 0..MaxStr}
\* std::string::npos, larger than every index
Npos == MaxStr + 1

\* s.find_first_of(chars), s.find(c) with chars = {c}
FindFirstOf(s, chars) ==
  IF \E k \in 1..Len(s) : s[k] \in chars
    THEN (CHOOSE k \in 1..Len(s) : s[k] \in chars /\ \A j \in 1..(k - 1) : s[j] \notin chars) - 1
    ELSE Npos
\* s.find_first_not_of(chars)
FindFirstNotOf(s, chars) ==
  IF \E k \in 1..Len(s) : s[k] \notin chars
    THEN (CHOOSE k \in 1..Len(s) : s[k] \notin chars /\ \A j \in 1..(k - 1) : s[j] \in chars) - 1
    ELSE Npos
\* s.substr(pos) and s.substr(0, n)
SubstrFrom(s, pos) == SubSeq(s, pos + 1, Len(s))
SubstrTo(s, n) == SubSeq(s, 1, n)

\* one pass through the body of while (true): the token pushed on plist,
\* the new copy, and whether the pass ends in a break
ParseStep(copy) ==
  LET space_idx == FindFirstOf(copy, {" ", "\t"})
      comma_idx == FindFirstOf(copy, {","})
  IN IF space_idx = Npos /\ comma_idx = Npos
       THEN [tok |-> copy, copy |-> copy, brk |-> TRUE]
       ELSE LET idx == IF (space_idx # Npos /\ space_idx < comma_idx) \/ comma_idx = Npos
                         THEN space_idx ELSE comma_idx
                rest == SubstrFrom(copy, idx)
                firstidx == FindFirstNotOf(rest, {" ", ","})
            IN IF firstidx = Npos
                 THEN [tok |-> SubstrTo(copy, idx), copy |-> rest, brk |-> TRUE]
                 ELSE [tok |-> SubstrTo(copy, idx), copy |-> SubstrFrom(rest, firstidx),
                       brk |-> FALSE]

\* tolower on every character
Lower(t) == [k \in 1..Len(t) |-> IF t[k] = "I" THEN "i" ELSE t[k]]
\* the number the leading digits of t spell
RECURSIVE Digits(_, _)
Digits(t, acc) ==
  IF t # <<>> /\ Head(t) = "1" THEN Digits(Tail(t), 10 * acc + 1) ELSE acc
\* atof: an optional sign, then digits or inf in either case; anything else,
\* and whatever follows, counts for nothing
atof(t) ==
  LET neg == t # <<>> /\ Head(t) = "-"
      body == IF neg THEN Tail(t) ELSE t
      sign == IF neg THEN 0 - 1 ELSE 1
  IN IF Len(body) >= 3 /\ Lower(SubSeq(body, 1, 3)) = <<"i", "n", "f">>
       THEN <<"inf", sign>>
       ELSE <<"num", sign * Digits(body, 0)>>
\* the element parse stores for the token t
TokenValue(t) ==
  IF Lower(t) = <<"i", "n", "f">> THEN <<"inf", 1>>
  ELSE IF Lower(t) = <<"-", "i", "n", "f">> THEN <<"inf", 0 - 1>>
  ELSE atof(t)

\* the whole loop: plist when it breaks
RECURSIVE ParseList(_, _)
ParseList(copy, list) ==
  LET st == ParseStep(copy)
  IN IF st.brk THEN Append(list, st.tok) ELSE ParseList(st.copy, Append(list, st.tok))

\* the strings the vector program parses
ParseArgs == {<<>>, <<"1">>, <<"1", " ", "n">>, <<",", "1">>}

\* VECTORN::parse(s, x);
ParseInto(x, s) ==
  /\ Running
  /\ LET list == ParseList(s, <<>>)
         N == Len(list)
     IN /\ N <= MaxN
        /\ \E g \in Fresh(Reallocates(vec[x], N), N) :
             LET res == resize(vec[x], N, FALSE, g)
             IN /\ vec' = [vec EXCEPT ![x] =
                             [res.r EXCEPT !.cells =
                                [k \in 1..PhysLen |->
                                   IF k <= N THEN TokenValue(list[k])[2] ELSE @[k]]]]
                /\ view' = Detach(view, x, vec[x], res.new)
                /\ ev' = Event("parse", x, N, 0, "ok", 0, res.new)

\* The calls of a program that builds a source vector w and copies it to v
Next ==
  \/ Construct0("v")
  \/ \E x \in VecIds, N \in 0..MaxN : ConstructN(x, N)
  \/ CopyConstruct("v", "w")
  \/ Assign("v", "w")
  \/ \E x \in VecIds, N \in 0..MaxN, p \in BOOLEAN : Resize(x, N, p)
  \/ Compress("v")
  \/ \E s \in ParseArgs : ParseInto("v", s)

Spec == Init /\ [][Next]_vars

\* The calls of a program that takes a view of v and works through both
NextView ==
  \/ \E N \in 0..MaxN : ConstructN("v", N)
  \/ \E N \in 0..MaxN, p \in BOOLEAN : Resize("v", N, p)
  \/ \E i \in 0..MaxN, val \in Vals : SetElem("v", i, val)
  \/ \E a, b \in 0..MaxN + 1 : Segment("v", a, b, FALSE)
  \/ \E i \in 0..MaxN, val \in Vals : ViewSet(i, val)
  \/ \E i \in 0..MaxN + 1 : Index("s", i)
  \/ \E i \in 0..MaxN + 1 : Data("s", i)

SpecView == Init /\ [][NextView]_vars

\* The calls of a program that takes sub-vectors of a vector v it has built
\* and filled, as views and as copies into w
Patterns == {[k \in 1..PhysLen |-> k % 2], [k \in 1..PhysLen |-> (k + 1) % 2]}

InitSub ==
  /\ \E N \in 0..MaxN, g \in Patterns :
       vec = [x \in VecIds |-> IF x = "v" THEN construct(N, g) ELSE DefaultVec]
  /\ view = NullView
  /\ ev = Event("init", "v", 0, 0, "ok", 0, FALSE)
  /\ NoDot
  /\ NoParse
  /\ NoJoint
  /\ NoTransform

NextSub ==
  \/ \E a, b \in 0..MaxN + 1, ro \in BOOLEAN : Segment("v", a, b, ro)
  \/ \E a, b \in 0..MaxN + 1 : GetSubVec("v", a, b, "w")

SpecSub == InitSub /\ [][NextSub]_vars

\* The calls of a program that has built and filled v, has a w of the
\* largest length to copy from, takes a view of v and then changes v: by resize, compress, a copy of w, and writes to v
\* and through the view
InitPersist ==
  /\ \E N \in 0..MaxN :
       vec = [x \in VecIds |-> IF x = "v" THEN construct(N, [k \in 1..PhysLen |-> 1])
                                          ELSE construct(MaxN, Zeros)]
  /\ view = NullView
  /\ ev = Event("init", "v", 0, 0, "ok", 0, FALSE)
  /\ NoDot
  /\ NoParse
  /\ NoJoint
  /\ NoTransform

NextPersist ==
  \/ \E a, b \in 0..MaxN : Segment("v", a, b, FALSE)
  \/ \E N \in 0..MaxN, p \in BOOLEAN : Resize("v", N, p)
  \/ Compress("v")
  \/ Assign("v", "w")
  \/ \E i \in 0..MaxN, val \in Vals : SetElem("v", i, val)
  \/ \E i \in 0..MaxN, val \in Vals : ViewSet(i, val)

SpecPersist == InitPersist /\ [][NextPersist]_vars

(* ------------------------------------------------------- SAXIS::dot      *)
\* largest component of a spatial vector
MaxComp == 1
Comp == 0..MaxComp
Poses == {"F1", "F2"}
Six == [1..6 -> Comp]

\* no vector call made
NoVec ==
  /\ vec = [x \in VecIds |-> DefaultVec]
  /\ view = NullView
  /\ ev = Event("init", "v", 0, 0, "ok", 0, FALSE)

\* REAL SAXIS::dot(const SFORCE&) const and REAL SAXIS::dot(const SMOMENTUM&)
\* const, the same body: d1 = data(), d2 = v2.data(), d1[k] is d1[k + 1] here
dot(d1, d2) ==
  d1[4] + d2[1] + d1[5] + d2[2] + d1[6] + d2[3] +
  d1[1] + d2[4] + d1[2] + d2[5] + d1[3] + d2[6]

\* an axis and a force or a momentum, each with its components and its pose
InitDot ==
  /\ NoVec
  /\ NoParse
  /\ NoJoint
  /\ NoTransform
  /\ \E p \in Poses, d \in Six : saxis = [pose |-> p, d |-> d]
  /\ \E k \in {"SFORCE", "SMOMENTUM"}, p \in Poses, d \in Six :
       sforce = [kind |-> k, pose |-> p, d |-> d]
  /\ dotret = [out |-> "none", val |-> 0]

\* saxis.dot(sforce) for an SFORCE
DotForce ==
  /\ dotret.out = "none"
  /\ sforce.kind = "SFORCE"
  /\ dotret' = [out |-> "ok", val |-> dot(saxis.d, sforce.d)]
  /\ UNCHANGED <<vecvars, parsevars, joint, xform, saxis, sforce>>

\* saxis.dot(sforce) for an SMOMENTUM
DotMomentum ==
  /\ dotret.out = "none"
  /\ sforce.kind = "SMOMENTUM"
  /\ dotret' = [out |-> "ok", val |-> dot(saxis.d, sforce.d)]
  /\ UNCHANGED <<vecvars, parsevars, joint, xform, saxis, sforce>>

NextDot == DotForce \/ DotMomentum

SpecDot == InitDot /\ [][NextDot]_vars

(* ------------------------------------------- VECTORN::parse, step by step *)
\* parse(s, values) is called
InitParse ==
  /\ NoVec
  /\ NoDot
  /\ NoJoint
  /\ NoTransform
  /\ pin \in Strings
  /\ pcopy = pin
  /\ plist = <<>>
  /\ ppc = "loop"
  /\ pvalues = <<>>

\* one pass through the loop
ParseIter ==
  /\ ppc = "loop"
  /\ Len(plist) < MaxTokens
  /\ LET st == ParseStep(pcopy)
     IN /\ plist' = Append(plist, st.tok)
        /\ pcopy' = st.copy
        /\ ppc' = IF st.brk THEN "convert" ELSE "loop"
  /\ UNCHANGED <<vecvars, dotvars, joint, xform, pin, pvalues>>

\* values.resize(plist.size()) and the loop that fills values
ParseConvert ==
  /\ ppc = "convert"
  /\ pvalues' = [k \in 1..Len(plist) |-> TokenValue(plist[k])]
  /\ ppc' = "done"
  /\ UNCHANGED <<vecvars, dotvars, joint, xform, pin, pcopy, plist>>

NextParse == ParseIter \/ ParseConvert

SpecParse == InitParse /\ [][NextParse]_vars

(* ---------------------------------------------------------- SPHERICALJOINT *)
\* A VECTOR3 is a triple of integers, in units of one fifth: the unit vectors
\* of the model are the axes and the 3-4-5 directions of the xy plane, which
\* all have an integer norm.
Dot3(a, b) == a[1] * b[1] + a[2] * b[2] + a[3] * b[3]
Abs(n) == IF n < 0 THEN 0 - n ELSE n
\* the length 1.0, in fifths
Unit == 5
\* the tolerance: below it a length in fifths is 0
EPS == 1
\* VECTOR3::norm(): the square root, exact for every vector the model reaches
\* (rounded down otherwise)
Norm(v) ==
  LET d == Dot3(v, v)
  IN IF d = 0 THEN 0
     ELSE IF d = Unit * Unit THEN Unit
     ELSE CHOOSE n \in 0..(Abs(v[1]) + Abs(v[2]) + Abs(v[3])) :
            n * n <= d /\ (n + 1) * (n + 1) > d
\* VECTOR3::normalize
normalize(v) ==
  LET n == Norm(v) IN <<(v[1] * Unit) \div n, (v[2] * Unit) \div n, (v[3] * Unit) \div n>>
\* VECTOR3::cross, exact for perpendicular unit vectors
cross(a, b) ==
  <<(a[2] * b[3] - a[3] * b[2]) \div Unit,
    (a[3] * b[1] - a[1] * b[3]) \div Unit,
    (a[1] * b[2] - a[2] * b[1]) \div Unit>>

Signs == {0 - 1, 1}
Units ==
  {[i \in 1..3 |-> IF i = k THEN sg * Unit ELSE 0] : k \in 1..3, sg \in Signs}
  \cup {<<3 * sa, 4 * sb, 0>> : sa \in Signs, sb \in Signs}
  \cup {<<4 * sa, 3 * sb, 0>> : sa \in Signs, sb \in Signs}
\* the vectors a caller hands to set_axis: unit ones and ones of length 2
AxisArgs == Units \cup {[i \in 1..3 |-> 2 * v[i]] : v \in Units}
\* the pose a caller's vector is defined in: the joint's _F or another pose G
AxisPoses == {"F", "G"}
Axes == 1..3

\* POSE3::transform_vector(get_pose(), v): a vector of G is turned a quarter
\* about z, the rotation that takes G to _F; a vector of _F is left as it is
transform_vector(pose, v) ==
  IF pose = "F" THEN v ELSE <<0 - v[2], v[1], v[3]>>

\* VECTOR3::determine_orthonormal_basis(a, b, c): the pairs <<b, c>> it may
\* give for a unit a, any b of unit length perpendicular to a with c = a x b
determine_orthonormal_basis(a) ==
  {<<b, cross(a, b)>> : b \in {w \in Units : Dot3(a, w) = 0}}

\* assign_axes that gives the basis of axis 2 to axes 1 and 3 the wrong way round
assign_axes_lefthanded(u) ==
  IF Norm(u[1]) < EPS
    THEN IF Norm(u[2]) < EPS
           THEN IF Norm(u[3]) < EPS
                  THEN {[ret |-> FALSE, u |-> u]}
                  ELSE {[ret |-> TRUE, u |-> <<bc[1], bc[2], normalize(u[3])>>] :
                          bc \in determine_orthonormal_basis(normalize(u[3]))}
           ELSE IF Norm(u[3]) < EPS
                  THEN {[ret |-> TRUE, u |-> <<bc[1], normalize(u[2]), bc[2]>>] :
                          bc \in determine_orthonormal_basis(normalize(u[2]))}
                  ELSE {[ret |-> TRUE,
                         u |-> <<cross(normalize(u[2]), normalize(u[3])),
                                 normalize(u[2]), normalize(u[3])>>]}
    ELSE IF Norm(u[2]) < EPS
           THEN IF Norm(u[3]) < EPS
                  THEN {[ret |-> TRUE, u |-> <<normalize(u[1]), bc[1], bc[2]>>] :
                          bc \in determine_orthonormal_basis(normalize(u[1]))}
                  ELSE {[ret |-> TRUE,
                         u |-> <<normalize(u[1]),
                                 cross(normalize(u[3]), normalize(u[1])),
                                 normalize(u[3])>>]}
           ELSE IF Norm(u[3]) < EPS
                  THEN {[ret |-> TRUE,
                         u |-> <<normalize(u[1]), normalize(u[2]),
                                 cross(normalize(u[1]), normalize(u[2]))>>]}
                  ELSE {[ret |-> TRUE, u |-> u]}

\* assign_axes that takes axis 1 x axis 3 for a missing axis 2
assign_axes_anticyclic(u) ==
  IF Norm(u[1]) < EPS
    THEN IF Norm(u[2]) < EPS
           THEN IF Norm(u[3]) < EPS
                  THEN {[ret |-> FALSE, u |-> u]}
                  ELSE {[ret |-> TRUE, u |-> <<bc[1], bc[2], normalize(u[3])>>] :
                          bc \in determine_orthonormal_basis(normalize(u[3]))}
           ELSE IF Norm(u[3]) < EPS
                  THEN {[ret |-> TRUE, u |-> <<bc[2], normalize(u[2]), bc[1]>>] :
                          bc \in determine_orthonormal_basis(normalize(u[2]))}
                  ELSE {[ret |-> TRUE,
                         u |-> <<cross(normalize(u[2]), normalize(u[3])),
                                 normalize(u[2]), normalize(u[3])>>]}
    ELSE IF Norm(u[2]) < EPS
           THEN IF Norm(u[3]) < EPS
                  THEN {[ret |-> TRUE, u |-> <<normalize(u[1]), bc[1], bc[2]>>] :
                          bc \in determine_orthonormal_basis(normalize(u[1]))}
                  ELSE {[ret |-> TRUE,
                         u |-> <<normalize(u[1]),
                                 cross(normalize(u[1]), normalize(u[3])),
                                 normalize(u[3])>>]}
           ELSE IF Norm(u[3]) < EPS
                  THEN {[ret |-> TRUE,
                         u |-> <<normalize(u[1]), normalize(u[2]),
                                 cross(normalize(u[1]), normalize(u[2]))>>]}
                  ELSE {[ret |-> TRUE, u |-> u]}

\* assign_axes(): the results it may have on the axes u, [ret, u]
assign_axes(u) ==
  IF Norm(u[1]) < EPS
    THEN IF Norm(u[2]) < EPS
           THEN IF Norm(u[3]) < EPS
                  THEN {[ret |-> FALSE, u |-> u]}
                  ELSE {[ret |-> TRUE, u |-> <<bc[1], bc[2], normalize(u[3])>>] :
                          bc \in determine_orthonormal_basis(normalize(u[3]))}
           ELSE IF Norm(u[3]) < EPS
                  THEN {[ret |-> TRUE, u |-> <<bc[2], normalize(u[2]), bc[1]>>] :
                          bc \in determine_orthonormal_basis(normalize(u[2]))}
                  ELSE {[ret |-> TRUE,
                         u |-> <<cross(normalize(u[2]), normalize(u[3])),
                                 normalize(u[2]), normalize(u[3])>>]}
    ELSE IF Norm(u[2]) < EPS
           THEN IF Norm(u[3]) < EPS
                  THEN {[ret |-> TRUE, u |-> <<normalize(u[1]), bc[1], bc[2]>>] :
                          bc \in determine_orthonormal_basis(normalize(u[1]))}
                  ELSE {[ret |-> TRUE,
                         u |-> <<normalize(u[1]),
                                 cross(normalize(u[3]), normalize(u[1])),
                                 normalize(u[3])>>]}
           ELSE IF Norm(u[3]) < EPS
                  THEN {[ret |-> TRUE,
                         u |-> <<normalize(u[1]), normalize(u[2]),
                                 cross(normalize(u[1]), normalize(u[2]))>>]}
                  ELSE {[ret |-> TRUE, u |-> u]}

\* the six assertions that end update_spatial_axes
AxesAsserted(u) ==
  /\ \A a \in Axes : Abs(Norm(u[a]) - Unit) < EPS
  /\ Abs(Dot3(u[1], u[2])) < EPS
  /\ Abs(Dot3(u[1], u[3])) < EPS
  /\ Abs(Dot3(u[2], u[3])) < EPS

\* JOINT::update_spatial_axes(), which sizes _s and tags it with the pose
JOINT_update_spatial_axes(j) == j

\* update_spatial_axes that goes on when assign_axes returns false
update_spatial_axes_noreturn(j, u) ==
  {[JOINT_update_spatial_axes(j) EXCEPT
      !.u = r.u,
      !.s[1] = [ang |-> r.u[1], lin |-> Zero3],
      !.s_dot[1] = ZeroAxis,
      !.configured = TRUE,
      !.out = IF AxesAsserted(r.u) THEN "ok" ELSE "assert"] :
   r \in assign_axes(u)}

\* update_spatial_axes() on the joint j whose axes have become u: what the
\* joint may be afterwards.  out is "assert" when an assertion fails; a build
\* with NDEBUG goes on from there.
update_spatial_axes(j, u) ==
  {IF ~r.ret
     THEN [JOINT_update_spatial_axes(j) EXCEPT
             !.u = r.u, !.configured = FALSE, !.out = "unset"]
     ELSE [JOINT_update_spatial_axes(j) EXCEPT
             !.u = r.u,
             !.s[1] = [ang |-> r.u[1], lin |-> Zero3],
             !.s_dot[1] = ZeroAxis,
             !.configured = TRUE,
             !.out = IF AxesAsserted(r.u) THEN "ok" ELSE "assert"] :
   r \in assign_axes(u)}

NoVecDotParse == NoVec /\ NoDot /\ NoParse /\ NoTransform

InitJoint ==
  /\ NoVecDotParse
  /\ NoJoint

\* set_axis(axis, a) on the joint j, axis defined in pose: what the joint may
\* be afterwards
set_axis(j, axis, pose, a) ==
  UNION {update_spatial_axes([j EXCEPT !.set = @ \cup {a}, !.op = "set_axis"],
                             [j.u EXCEPT ![a] = ua]) :
           ua \in {transform_vector(pose, naxis) : naxis \in {normalize(axis)}}}

\* joint.set_axis(axis, a), axis defined in pose
SetAxis(axis, pose, a) ==
  /\ joint' \in set_axis(joint, axis, pose, a)
  /\ UNCHANGED <<vecvars, dotvars, parsevars, xform>>

\* joint.update_spatial_axes()
UpdateSpatialAxes ==
  /\ joint' \in update_spatial_axes([joint EXCEPT !.op = "update_spatial_axes"], joint.u)
  /\ UNCHANGED <<vecvars, dotvars, parsevars, xform>>

\* the vectors the program sets axes from: in the joint's pose, in pose G
SetAxisArgs == {<<5, 0, 0>>, <<0, 10, 0>>, <<0, 0, 5>>, <<3, 4, 0>>, <<0 - 8, 6, 0>>}
SetAxisArgsG == {<<5, 0, 0>>, <<6, 8, 0>>}

NextJoint ==
  \/ \E axis \in SetAxisArgs, a \in Axes : SetAxis(axis, "F", a)
  \/ \E axis \in SetAxisArgsG, a \in Axes : SetAxis(axis, "G", a)
  \/ UpdateSpatialAxes

SpecJoint == InitJoint /\ [][NextJoint]_vars

\* assign_axes on a joint that has exactly two axes: the joints whose other
\* axis a is zero and whose two axes are unit vectors or vectors of length 2
\* with a cross product that fifths represent exactly
VectorProduct(a, b) ==
  <<a[2] * b[3] - a[3] * b[2], a[3] * b[1] - a[1] * b[3], a[1] * b[2] - a[2] * b[1]>>
ExactCross(x, y) ==
  \A i \in 1..3 : VectorProduct(normalize(x), normalize(y))[i] % Unit = 0
TwoAxes ==
  {[NewJoint EXCEPT !.u = [k \in Axes |-> IF k = a THEN Zero3
                                          ELSE IF k = (a % 3) + 1 THEN xy[1] ELSE xy[2]],
                    !.set = Axes \ {a}] :
     a \in Axes, xy \in {p \in AxisArgs \X AxisArgs : ExactCross(p[1], p[2])}}

InitAssign ==
  /\ NoVecDotParse
  /\ joint \in TwoAxes

NextAssign == UpdateSpatialAxes

SpecAssign == InitAssign /\ [][NextAssign]_vars

(* --------------------------------------- SPHERICALJOINT: the queries       *)
\* Angles are whole quarter turns.  A rotation matrix is a triple of rows of
\* integers, in 25ths; products keep every factor: R1 * v is in 125ths for an
\* axis v in fifths, R1 * (R2 * v) in 3125ths, R1 * R2 * R3 in 15625ths.
Cos(k) == <<1, 0, 0 - 1, 0>>[(k % 4) + 1]
Sin(k) == <<0, 1, 0, 0 - 1>>[(k % 4) + 1]
\* MATRIX3 = AANGLE(a, k): cos I + (1 - cos) a a^T + sin [a]x
AANGLE(a, k) ==
  LET sk == <<<<0, 0 - a[3], a[2]>>, <<a[3], 0, 0 - a[1]>>, <<0 - a[2], a[1], 0>>>>
  IN [i \in 1..3 |-> [j \in 1..3 |->
        (IF i = j THEN Unit * Unit * Cos(k) ELSE 0)
        + (1 - Cos(k)) * a[i] * a[j] + Unit * Sin(k) * sk[i][j]]]
\* MATRIX3 * ORIGIN3 and MATRIX3 * MATRIX3
MatVec(M, v) == [i \in 1..3 |-> M[i][1] * v[1] + M[i][2] * v[2] + M[i][3] * v[3]]
MatMul(A, B) ==
  [i \in 1..3 |-> [j \in 1..3 |-> A[i][1] * B[1][j] + A[i][2] * B[2][j] + A[i][3] * B[3][j]]]
\* VECTOR3 * REAL and ORIGIN3 + ORIGIN3
Scale3(v, c) == <<v[1] * c, v[2] * c, v[3] * c>>
Add3(a, b) == <<a[1] + b[1], a[2] + b[2], a[3] + b[3]>>

\* get_spatial_axes that goes on without an outboard pose
get_spatial_axes_noutboard(j) ==
  IF ~j.inboard
    THEN [j EXCEPT !.op = "get_spatial_axes", !.out = "runtime_error"]
    ELSE LET R1 == AANGLE(j.u[1], j.q[1] + j.q_tare[1])
             u2 == MatVec(R1, j.u[2])
             R2 == AANGLE(j.u[2], j.q[2] + j.q_tare[2])
             u3 == MatVec(R1, MatVec(R2, j.u[3]))
         IN [j EXCEPT !.op = "get_spatial_axes", !.out = "ok",
                      !.s[2] = [ang |-> u2, lin |-> Zero3],
                      !.s[3] = [ang |-> u3, lin |-> Zero3]]

\* get_spatial_axes that turns axis 3 about axis 1 before it turns it about axis 2
get_spatial_axes_swapped(j) ==
  IF ~j.inboard \/ ~j.outboard
    THEN [j EXCEPT !.op = "get_spatial_axes", !.out = "runtime_error"]
    ELSE LET R1 == AANGLE(j.u[1], j.q[1] + j.q_tare[1])
             u2 == MatVec(R1, j.u[2])
             R2 == AANGLE(j.u[2], j.q[2] + j.q_tare[2])
             u3 == MatVec(R2, MatVec(R1, j.u[3]))
         IN [j EXCEPT !.op = "get_spatial_axes", !.out = "ok",
                      !.s[2] = [ang |-> u2, lin |-> Zero3],
                      !.s[3] = [ang |-> u3, lin |-> Zero3]]

\* get_spatial_axes(): the joint afterwards; what it returns is _s
get_spatial_axes(j) ==
  IF ~j.inboard \/ ~j.outboard
    THEN [j EXCEPT !.op = "get_spatial_axes", !.out = "runtime_error"]
    ELSE LET R1 == AANGLE(j.u[1], j.q[1] + j.q_tare[1])
             u2 == MatVec(R1, j.u[2])
             R2 == AANGLE(j.u[2], j.q[2] + j.q_tare[2])
             u3 == MatVec(R1, MatVec(R2, j.u[3]))
         IN [j EXCEPT !.op = "get_spatial_axes", !.out = "ok",
                      !.s[2] = [ang |-> u2, lin |-> Zero3],
                      !.s[3] = [ang |-> u3, lin |-> Zero3]]

\* get_spatial_axes_dot(): the joint afterwards; what it returns is _s_dot,
\* axis 2 in 625ths and axis 3 in 15625ths
get_spatial_axes_dot(j) ==
  IF ~j.inboard \/ ~j.outboard
    THEN [j EXCEPT !.op = "get_spatial_axes_dot", !.out = "runtime_error"]
    ELSE LET R1 == AANGLE(j.u[1], j.q[1] + j.q_tare[1])
             omega1 == Scale3(j.u[1], j.qd[1])
             u2 == VectorProduct(omega1, MatVec(R1, j.u[2]))
             R2 == AANGLE(j.u[2], j.q[2] + j.q_tare[2])
             omega2 == Scale3(j.u[2], j.qd[2])
             u3 == Add3(VectorProduct(omega1, MatVec(MatMul(R1, R2), j.u[3])),
                        MatVec(R1, VectorProduct(omega2, MatVec(R2, j.u[3]))))
         IN [j EXCEPT !.op = "get_spatial_axes_dot", !.out = "ok",
                      !.s_dot[2] = [ang |-> u2, lin |-> Zero3],
                      !.s_dot[3] = [ang |-> u3, lin |-> Zero3]]

\* get_rotation that leaves out the rotation about axis 3
get_rotation_two(j) ==
  LET R1 == AANGLE(j.u[1], j.q[1] + j.q_tare[1])
      R2 == AANGLE(j.u[2], j.q[2] + j.q_tare[2])
  IN MatMul(MatMul(R1, R2), AANGLE(j.u[3], 0))

\* get_rotation()
get_rotation(j) ==
  LET R1 == AANGLE(j.u[1], j.q[1] + j.q_tare[1])
      R2 == AANGLE(j.u[2], j.q[2] + j.q_tare[2])
  IN MatMul(MatMul(R1, R2), AANGLE(j.u[3], j.q[3] + j.q_tare[3]))

\* get_induced_pose(): the joint afterwards; what it returns is _Fprime
get_induced_pose(j) ==
  [j EXCEPT !.op = "get_induced_pose", !.out = "ok", !.Fprime.q = get_rotation(j)]

\* the coordinates the program gives the joint
Turns == {0, 1}
\* the joints the program queries: a new one, one made by set_axis from a
\* 3-4-5 vector, one made by a second set_axis on the same axis, one made by
\* set_axis from the x axis; each with and without a tare, and with velocities
QueryJoints ==
  LET once == set_axis(NewJoint, <<3, 4, 0>>, "F", 1)
      twice == UNION {set_axis(j, <<5, 0, 0>>, "F", 1) : j \in once}
      aligned == set_axis(NewJoint, <<5, 0, 0>>, "F", 2)
  IN {[j EXCEPT !.q_tare = t, !.qd = <<1, 1, 0>>] :
        j \in {NewJoint} \cup once \cup twice \cup aligned, t \in {Zero3, <<1, 0, 0>>}}

\* joint.q[k] = v
SetQ(k, v) ==
  /\ joint' = [joint EXCEPT !.q[k] = v, !.op = "q"]
  /\ UNCHANGED <<vecvars, dotvars, parsevars, xform>>

\* the inboard and the outboard pose are set to a pose (b) or to NULL
SetInboardPose(b) ==
  /\ joint' = [joint EXCEPT !.inboard = b, !.op = "pose"]
  /\ UNCHANGED <<vecvars, dotvars, parsevars, xform>>
SetOutboardPose(b) ==
  /\ joint' = [joint EXCEPT !.outboard = b, !.op = "pose"]
  /\ UNCHANGED <<vecvars, dotvars, parsevars, xform>>

GetSpatialAxes ==
  /\ joint' = get_spatial_axes(joint)
  /\ UNCHANGED <<vecvars, dotvars, parsevars, xform>>
GetSpatialAxesDot ==
  /\ joint' = get_spatial_axes_dot(joint)
  /\ UNCHANGED <<vecvars, dotvars, parsevars, xform>>
GetInducedPose ==
  /\ joint' = get_induced_pose(joint)
  /\ UNCHANGED <<vecvars, dotvars, parsevars, xform>>

InitQuery ==
  /\ NoVecDotParse
  /\ joint \in QueryJoints

NextAxes ==
  \/ \E k \in 1..2, v \in Turns : SetQ(k, v)
  \/ \E b \in BOOLEAN : SetInboardPose(b)
  \/ \E b \in BOOLEAN : SetOutboardPose(b)
  \/ GetSpatialAxes
  \/ GetSpatialAxesDot

SpecAxes == InitQuery /\ [][NextAxes]_vars

NextRot ==
  \/ \E k \in Axes, v \in Turns : SetQ(k, v)
  \/ GetInducedPose

SpecRot == InitQuery /\ [][NextRot]_vars

\* get_axis(a): the vector it returns, in fifths
get_axis(j, a) ==
  IF a = 1
    THEN j.u[1]
    ELSE LET c1 == Cos(j.q[1] + j.q_tare[1])
             s1 == Sin(j.q[1] + j.q_tare[1])
         IN IF a = 2
              THEN <<0, Unit * c1, Unit * s1>>
              ELSE LET c2 == Cos(j.q[2] + j.q_tare[2])
                       s2 == Sin(j.q[2] + j.q_tare[2])
                   IN <<Unit * s2, 0 - Unit * c2 * s1, Unit * c1 * c2>>

\* get_axis(a) is called: it is const, the joint keeps what it returned
GetAxis(a) ==
  /\ joint' = [joint EXCEPT !.op = "get_axis", !.arg = a, !.ret = get_axis(joint, a)]
  /\ UNCHANGED <<vecvars, dotvars, parsevars, xform>>

\* the joints whose axes are asked for: made by one set_axis on axis 1, from
\* the x axis and from a 3-4-5 vector, each with and without a tare
AxisJoints ==
  {[j EXCEPT !.q_tare = t] :
     j \in set_axis(NewJoint, <<5, 0, 0>>, "F", 1) \cup set_axis(NewJoint, <<3, 4, 0>>, "F", 1),
     t \in {Zero3, <<1, 0, 0>>}}

InitGetAxis ==
  /\ NoVecDotParse
  /\ joint \in AxisJoints

NextGetAxis ==
  \/ \E k \in 1..2, v \in Turns : SetQ(k, v)
  \/ \E b \in BOOLEAN : SetInboardPose(b)
  \/ \E b \in BOOLEAN : SetOutboardPose(b)
  \/ GetSpatialAxes
  \/ \E a \in Axes : GetAxis(a)

SpecGetAxis == InitGetAxis /\ [][NextGetAxis]_vars

(* ------------------------------------------------------------ TRANSFORM2 *)
\* A POSE2 is known by its identity: A1 and A2 are two poses of equal value.
\* A rotation is a number of quarter turns, a translation a pair.
Pose2s == {"A1", "A2", "B"}
Rot2s == {0, 1}
Origin2s == {<<0, 0>>, <<1, 0>>}
Transforms == [r : Rot2s, x : Origin2s, source : Pose2s, target : Pose2s]
\* ROT2 * ORIGIN2
Rot2Apply(r, x) ==
  <<Cos(r) * x[1] - Sin(r) * x[2], Sin(r) * x[1] + Cos(r) * x[2]>>

\* T2 * T1 that compares nothing
compose_unchecked(T2, T1) ==
  [out |-> "ok",
   ret |-> [r |-> (T2.r + T1.r) % 4,
            x |-> <<Rot2Apply(T2.r, T1.x)[1] + T2.x[1], Rot2Apply(T2.r, T1.x)[2] + T2.x[2]>>,
            source |-> T1.source, target |-> T2.target]]

\* TRANSFORM2 TRANSFORM2::operator*(const TRANSFORM2& m) const, this = T2, m = T1
compose(T2, T1) ==
  IF T2.source # T1.target
    THEN [out |-> "FrameException", ret |-> NewTransform]
    ELSE [out |-> "ok",
          ret |-> [r |-> (T2.r + T1.r) % 4,
                   x |-> <<Rot2Apply(T2.r, T1.x)[1] + T2.x[1],
                           Rot2Apply(T2.r, T1.x)[2] + T2.x[2]>>,
                   source |-> T1.source, target |-> T2.target]]

InitTransform ==
  /\ NoVec /\ NoDot /\ NoParse /\ NoJoint
  /\ \E a \in Transforms, b \in Transforms :
       xform = [T2 |-> a, T1 |-> b, out |-> "none", ret |-> NewTransform]

\* T2 * T1
Compose ==
  /\ xform.out = "none"
  /\ LET res == compose(xform.T2, xform.T1)
     IN xform' = [xform EXCEPT !.out = res.out, !.ret = res.ret]
  /\ UNCHANGED <<vecvars, dotvars, parsevars, joint>>

NextTransform == Compose

SpecTransform == InitTransform /\ [][NextTransform]_vars

(* ------------------------------------------------------------ the claims *)
\* element i of the view
ViewElem(i) == ViewCells[view.start + i * view.inc + 1]

\* C3: in a checked build operator[](i) and data(i) throw
\* InvalidIndexException for every i >= len and return the element at offset
\* start + i for every i < len.
C3_IndexChecked ==
  ev.op \in {"index", "data"} =>
    /\ ev.a >= LenOf(ev.x) => ev.out = "InvalidIndexException"
    /\ ev.a < LenOf(ev.x) =>
         ev.out = "ok" /\ ev.val = CellsOfObj(ev.x)[StartOf(ev.x) + ev.a + 1]

\* C4: resize(N, preserve) with N <= capacity (N == capacity included) leaves
\* the array and the capacity as they are and only sets the length to N.
C4_NoReallocWithinCapacity ==
  [][\A x \in VecIds :
       (ev'.op = "resize" /\ ev'.x = x /\ ev'.a <= vec[x].cap) =>
         /\ ~ev'.new
         /\ vec'[x].cap = vec[x].cap
         /\ vec'[x].cells = vec[x].cells
         /\ vec'[x].len = ev'.a]_vars

\* C5: the view made by x.segment(start, end) holds the array of x, has
\* length end - start and stride 1 and its element i is element start + i of
\* x; a write through the view at i changes element start + i of x, and a
\* write to x at start + i is read through the view at i.
C5_SegmentAliasing ==
  /\ (ev.op = "segment" /\ ev.out = "ok") =>
       /\ view.of = ev.x
       /\ view.len = ev.b - ev.a
       /\ view.inc = 1
       /\ \A i \in 0..(view.len - 1) : ViewElem(i) = vec[ev.x].cells[ev.a + i + 1]
  /\ (ev.op = "view_set" /\ view.of \in VecIds) =>
       vec[view.of].cells[view.start + ev.a + 1] = ev.val
  /\ (ev.op = "set" /\ view.of = ev.x
        /\ view.start <= ev.a /\ ev.a < view.start + view.len) =>
       ViewElem(ev.a - view.start) = ev.val

\* a write of 1 through a view that starts past the first element of v
C5_Witness ==
  /\ ev.op = "view_set" /\ ev.val = 1
  /\ view.of = "v" /\ view.start > 0
  /\ vec["v"].cells[view.start + ev.a + 1] = 1

C7_CapacityInvariant ==
  /\ [](\A x \in VecIds : vec[x].cap >= vec[x].len)
  /\ [][\A x \in VecIds :
          (ev'.op = "compress" /\ ev'.x = x) =>
            /\ vec'[x].cap = vec'[x].len
            /\ vec'[x].len = vec[x].len
            /\ \A k \in 1..vec[x].len : vec'[x].cells[k] = vec[x].cells[k]]_vars

\* a compress that made a smaller array for a vector that holds elements
C7_Witness ==
  ev.op = "compress" /\ ev.new /\ vec[ev.x].len > 0 /\ vec[ev.x].cap = vec[ev.x].len

\* C8: segment (both overloads) and get_sub_vec throw InvalidIndexException
\* exactly when start > end or end > length, and then change neither the
\* vector nor the output argument nor the view; otherwise they succeed.
C8_SubVectorChecked ==
  [][(ev'.op \in {"segment", "const_segment", "get_sub_vec"}) =>
       /\ (ev'.out = "InvalidIndexException")
            <=> (ev'.a > ev'.b \/ ev'.b > vec[ev'.x].len)
       /\ ev'.out = "InvalidIndexException" => UNCHANGED <<vec, view>>
       /\ ev'.out # "InvalidIndexException" => ev'.out = "ok"]_vars

\* a get_sub_vec refused for start > end while the output vector holds elements
C8_Witness ==
  /\ ev.op = "get_sub_vec" /\ ev.out = "InvalidIndexException"
  /\ ev.a > ev.b /\ ev.b <= vec["v"].len
  /\ vec["w"].len > 0

\* the screw-theory pairing of a motion vector and a force vector with the
\* components d1 and d2: angular_m . linear_f + linear_m . angular_f
Pairing(d1, d2) ==
  d1[4] * d2[1] + d1[5] * d2[2] + d1[6] * d2[3] +
  d1[1] * d2[4] + d1[2] * d2[5] + d1[3] * d2[6]

\* C1: for an axis and a force or momentum in the same frame SAXIS::dot
\* returns the pairing angular_m . linear_f + linear_m . angular_f, the sum of
\* the six products of the cross terms.
C1_DotIsPairing ==
  (dotret.out = "ok" /\ saxis.pose = sforce.pose) =>
    dotret.val = Pairing(saxis.d, sforce.d)

\* C2: a dot product of operands whose frames are not the identical frame
\* fails with a frame-mismatch error and returns no number.
C2_DotFrameChecked ==
  (dotret.out # "none" /\ saxis.pose # sforce.pose) => dotret.out = "FrameException"

\* the delimiters of a vector literal
Delims == {" ", "\t", ","}
\* the tokens of s: its longest runs of characters that are not delimiters
RECURSIVE Tokens(_)
Tokens(s) ==
  IF s = <<>> THEN <<>>
  ELSE IF Head(s) \in Delims THEN Tokens(Tail(s))
  ELSE LET d == FindFirstOf(s, Delims)
           n == IF d = Npos THEN Len(s) ELSE d
       IN <<SubstrTo(s, n)>> \o Tokens(SubstrFrom(s, n))

\* C9: when parse returns, values has one element for each token of s, in
\* order, and element k is the value of token k: infinity for inf and -inf in
\* either case, the number for a number, 0 for a malformed token.
C9_ParseTokens ==
  ppc = "done" =>
    /\ Len(pvalues) = Len(Tokens(pin))
    /\ \A k \in 1..Len(pvalues) : pvalues[k] = TokenValue(Tokens(pin)[k])

\* C10: whenever the joint is configured, its three axes have unit length and
\* are pairwise orthogonal, and no assertion of update_spatial_axes has failed.
C10_AxesOrthonormal ==
  joint.configured =>
    /\ \A a \in Axes : Norm(joint.u[a]) = Unit
    /\ \A a, b \in Axes : a # b => Dot3(joint.u[a], joint.u[b]) = 0
    /\ joint.out # "assert"

\* the axes u are of unit length and pairwise orthogonal
Orthonormal(u) ==
  /\ \A a \in Axes : Norm(u[a]) = Unit
  /\ \A a, b \in Axes : a # b => Dot3(u[a], u[b]) = 0
\* the triple product axis1 . (axis2 x axis3)
TripleProduct(u) == Dot3(u[1], cross(u[2], u[3]))
\* the axis after a and the one after that, in the order 1, 2, 3, 1
NextAxis(a) == (a % 3) + 1

\* C11: after every set_axis the axes the caller has not set are the
\* completion of the ones the caller has set: with one axis set the triad is
\* orthonormal and right-handed, with two set the third is their cross
\* product in cyclic order.
C11_AxesRederived ==
  joint.op = "set_axis" =>
    /\ Cardinality(joint.set) = 1 =>
         Orthonormal(joint.u) /\ TripleProduct(joint.u) > 0
    /\ \A a \in Axes :
         joint.set = Axes \ {a} =>
           joint.u[a] = cross(joint.u[NextAxis(a)], joint.u[NextAxis(NextAxis(a))])

\* C12: update_spatial_axes on a joint whose three axes are zero reports
\* "unset" without an error and changes neither the axes nor _s nor _s_dot;
\* a joint that is not configured has three zero axes; and every set_axis
\* leaves the joint configured.
C12_UnsetIsReported ==
  /\ [](~joint.configured => joint.u = <<Zero3, Zero3, Zero3>>)
  /\ [][/\ (joint.u = <<Zero3, Zero3, Zero3>> /\ joint'.op = "update_spatial_axes") =>
             /\ joint'.out = "unset"
             /\ ~joint'.configured
             /\ joint'.u = joint.u /\ joint'.s = joint.s /\ joint'.s_dot = joint.s_dot
        /\ joint'.op = "set_axis" => joint'.configured]_vars

\* update_spatial_axes has returned early on a joint without axes
C12_Witness ==
  joint.op = "update_spatial_axes" /\ joint.out = "unset" /\ ~joint.configured

\* C13: set_axis on a joint without axes, which leaves exactly one axis
\* specified for assign_axes, gives an orthonormal, right-handed triad that
\* passes the assertions, whichever of the three axes it is.
C13_SingleAxisCompleted ==
  [][(~joint.configured /\ joint'.op = "set_axis") =>
       /\ Orthonormal(joint'.u)
       /\ TripleProduct(joint'.u) > 0
       /\ joint'.out = "ok"]_vars

\* a triad completed from axis 2, with a 3-4-5 direction for it
C13_Witness ==
  /\ joint.op = "set_axis" /\ joint.set = {2} /\ joint.out = "ok"
  /\ joint.u[2] = <<3, 4, 0>>
  /\ Orthonormal(joint.u) /\ TripleProduct(joint.u) > 0

\* C14: assign_axes on a joint with exactly two axes sets the missing axis to
\* the cross product of the other two in the order 1 x 2 -> 3, 2 x 3 -> 1,
\* 3 x 1 -> 2, and the two known axes keep their direction.
C14_MissingAxisIsCross ==
  [][\A a \in Axes :
       (/\ joint'.op = "update_spatial_axes"
        /\ joint.u[a] = Zero3
        /\ \A k \in Axes \ {a} : joint.u[k] # Zero3) =>
         /\ \A i \in 1..3 :
              Unit * joint'.u[a][i] =
                VectorProduct(joint'.u[NextAxis(a)], joint'.u[NextAxis(NextAxis(a))])[i]
         /\ \A k \in Axes \ {a} :
              /\ VectorProduct(joint'.u[k], joint.u[k]) = Zero3
              /\ Dot3(joint'.u[k], joint.u[k]) > 0]_vars

\* axis 2 made from axes 3 and 1
C14_Witness ==
  /\ joint.op = "update_spatial_axes" /\ joint.set = {1, 3} /\ joint.out = "ok"
  /\ joint.u = <<<<3, 4, 0>>, <<0 - 4, 3, 0>>, <<0, 0, 5>>>>

Queries == {"get_spatial_axes", "get_spatial_axes_dot"}

\* C15: a spatial-axis query made while the inboard or the outboard pose is
\* NULL ends in std::runtime_error and leaves _s and _s_dot as they were.
C15_QueryNeedsPoses ==
  [][(joint'.op \in Queries /\ (~joint.inboard \/ ~joint.outboard)) =>
       /\ joint'.out = "runtime_error"
       /\ joint'.s = joint.s
       /\ joint'.s_dot = joint.s_dot]_vars

\* a query refused for the missing outboard pose, after an earlier query has
\* filled _s
C15_Witness ==
  /\ joint.op = "get_spatial_axes_dot" /\ joint.out = "runtime_error"
  /\ joint.inboard /\ ~joint.outboard
  /\ joint.s[2].ang # Zero3

\* C16: a spatial-axis query on a joint whose axes are unset ends in a
\* configuration error.
C16_QueryNeedsAxes ==
  (joint.op \in Queries /\ ~joint.configured) => joint.out = "runtime_error"

\* v turned about the unit axis a by k quarter turns, in 25ths of v's unit:
\* cos v + sin (a x v) + (1 - cos) (a . v) a
Rotate(a, k, v) ==
  Add3(Add3(Scale3(v, Unit * Unit * Cos(k)),
            Scale3(VectorProduct(a, v), Unit * Sin(k))),
       Scale3(a, (1 - Cos(k)) * Dot3(a, v)))
\* the angle of axis k
Theta(j, k) == j.q[k] + j.q_tare[k]

\* C17: get_induced_pose on a configured joint sets the rotation of the
\* induced pose to R1 R2 R3, Rk the rotation about axis k by q[k] + tare[k]
\* (it takes every vector where the three rotations take it, axis 3 first),
\* to the identity when the three angles are 0, and the translation of the
\* induced pose is zero in every state.
C17_InducedRotation ==
  /\ [](joint.Fprime.x = Zero3)
  /\ [][(joint'.op = "get_induced_pose" /\ joint.configured) =>
          /\ \A e \in {<<1, 0, 0>>, <<0, 1, 0>>, <<0, 0, 1>>} :
               MatVec(joint'.Fprime.q, e) =
                 Rotate(joint.u[1], Theta(joint, 1),
                   Rotate(joint.u[2], Theta(joint, 2),
                     Rotate(joint.u[3], Theta(joint, 3), e)))
          /\ (\A k \in Axes : Theta(joint, k) = 0) =>
               joint'.Fprime.q = NewJoint.Fprime.q]_vars

\* an induced pose turned about all three axes
C17_Witness ==
  /\ joint.op = "get_induced_pose" /\ joint.configured
  /\ \A k \in Axes : joint.q[k] = 1
  /\ joint.Fprime.q # NewJoint.Fprime.q

\* C18: get_spatial_axes on a configured joint with both poses gives axis 1
\* the angular part u1, axis 2 the angular part R1 u2, axis 3 the angular
\* part R1 R2 u3, with the angles of the current q, and all three a zero
\* linear part.
C18_SpatialAxes ==
  [][(joint'.op = "get_spatial_axes" /\ joint'.out = "ok" /\ joint.configured) =>
       /\ joint'.s[1].ang = joint.u[1]
       /\ joint'.s[2].ang = Rotate(joint.u[1], Theta(joint, 1), joint.u[2])
       /\ joint'.s[3].ang =
            Rotate(joint.u[1], Theta(joint, 1),
              Rotate(joint.u[2], Theta(joint, 2), joint.u[3]))
       /\ \A k \in Axes : joint'.s[k].lin = Zero3]_vars

\* spatial axes of an orthonormal triad turned by a quarter about axes 1 and 2
C18_Witness ==
  /\ joint.op = "get_spatial_axes" /\ joint.out = "ok" /\ joint.configured
  /\ Orthonormal(joint.u)
  /\ Theta(joint, 1) = 1 /\ Theta(joint, 2) = 1
  /\ joint.s[3].ang # Scale3(joint.u[3], 625)

\* C19: T2 * T1 gives a transform exactly when T1.target is the same pose as
\* T2.source, and then one from T1.source to T2.target; on any other pair it
\* ends in a frame-mismatch error and gives no transform.
C19_CompositionFrames ==
  xform.out # "none" =>
    IF xform.T1.target = xform.T2.source
      THEN /\ xform.out = "ok"
           /\ xform.ret.source = xform.T1.source
           /\ xform.ret.target = xform.T2.target
      ELSE /\ xform.out = "FrameException"
           /\ xform.ret = NewTransform

\* a composition refused for two poses of equal value that are not the same pose
C19_Witness ==
  /\ xform.out = "FrameException"
  /\ xform.T1.target = "A1" /\ xform.T2.source = "A2"

\* C20: the capacity a vector records never exceeds the number of elements
\* of the array it holds.
C20_CapacityWithinAllocation ==
  \A x \in VecIds : vec[x].cap <= vec[x].alloc

\* C21: parse terminates on every string: each pass through the loop that goes
\* round again leaves a strictly shorter copy, so the loop ends and parse returns.
C21_ParseShortens ==
  [][(ppc = "loop" /\ ppc' = "loop") => Len(pcopy') < Len(pcopy)]_vars

\* v and w point the same way, whatever their lengths
SameDirection(v, w) == VectorProduct(v, w) = Zero3 /\ Dot3(v, w) > 0

\* C22: on a configured joint with both poses, get_axis(a) returns the
\* direction of the angular part of get_spatial_axes()[a], for every axis a and
\* whatever the base axes, the coordinates and the tare are.
C22_AxisQueriesAgree ==
  (joint.op = "get_axis" /\ joint.configured /\ joint.inboard /\ joint.outboard) =>
    SameDirection(joint.ret, get_spatial_axes(joint).s[joint.arg].ang)

\* C23: a view made by v.segment(a, b) keeps the array it was made on. A
\* resize of v, a compress of v and a copy-assignment to v that takes a new
\* array leave the start, the length and the elements of the view as they were
\* and its array in place; and once v holds another array than the view, a
\* write to v does not change the elements of the view and a write through the
\* view does not change v.
C23_ViewPersists ==
  [][/\ (/\ view.of \in {"v", "own"}
          /\ ev'.x = "v"
          /\ (ev'.op \in {"resize", "compress"} \/ (ev'.op = "assign" /\ ev'.new))) =>
          /\ view'.start = view.start
          /\ view'.len = view.len
          /\ ViewNil' = ViewNil
          /\ \A i \in 0..(view.len - 1) : ViewElem(i)' = ViewElem(i)
     /\ (view.of = "own" /\ ev'.op = "set") =>
          \A i \in 0..(view.len - 1) : ViewElem(i)' = ViewElem(i)
     /\ (view.of = "own" /\ ev'.op = "view_set") => vec' = vec]_vars

\* v has taken a new array after the view was made, and a write to v at an
\* index of the view has left the element of the view at another value
C23_Witness ==
  /\ view.of = "own" /\ ~view.nil
  /\ ev.op = "set" /\ ev.x = "v"
  /\ view.start <= ev.a /\ ev.a < view.start + view.len
  /\ ViewElem(ev.a - view.start) # ev.val
  /\ vec["v"].cells[ev.a + 1] = ev.val

====
